---- MODULE Spec2Model ----
(***************************************************************************)
(* Model of ast_parser.py: a process-wide identifier counter (handle), the *)
(* string builders createNode, createChild, createWrapper and simpleAST,   *)
(* and getCode, which prints the wrapped example tree.  The script runs    *)
(* getCode() once when it is loaded (line 34); afterwards the functions of *)
(* the loaded module can be called in any order.                           *)
(*                                                                         *)
(* A Python string is modelled as the sequence of its characters, so that  *)
(* concatenation, slicing and str() are computed and not assumed.          *)
(***************************************************************************)
EXTENDS Integers, Sequences, FiniteSets, TLC

\* The counter stops growing at MaxHandle (Python integers are unbounded).
MaxHandle == 15

VARIABLES handle, pc, stdout, issued, ret, first, asts

vars == <<handle, pc, stdout, issued, ret, first, asts>>

----------------------------------------------------------------------------
\* Strings

DigitChars == <<"0", "1", "2", "3", "4", "5", "6", "7", "8", "9">>

\* str(n) for an integer n >= 0: its decimal digits, most significant first.
RECURSIVE str(_)
str(n) == IF n < 10 THEN <<DigitChars[n + 1]>>
                    ELSE str(n \div 10) \o <<DigitChars[(n % 10) + 1]>>

\* The terminator the print statement writes after its argument.
NL == <<"\n">>

\* The default value of createChild's parameter options.
DefaultOptions == <<>>

----------------------------------------------------------------------------
\* The functions of ast_parser.py.  The global handle is passed in as h and the
\* new value is returned beside the function's return value.

\* Mutant: the counter is not incremented.
createNodeNoIncrement(h, label) ==
    LET variable == <<"x">> \o str(h)
    IN  [handle |-> h,
         ret    |-> <<variable,
                      variable \o <<" ", "[", "l", "a", "b", "e", "l", "=", "\"">> \o label \o <<"\"", ",", "s", "h", "a", "p", "e", "=", "c", "i", "r", "c", "l", "e", "]", "\n">>>>]

\* Mutant: the counter is incremented before the identifier is formed.
createNodeIncrementFirst(h, label) ==
    LET variable == <<"x">> \o str(h + 1)
    IN  [handle |-> h + 1,
         ret    |-> <<variable,
                      variable \o <<" ", "[", "l", "a", "b", "e", "l", "=", "\"">> \o label \o <<"\"", ",", "s", "h", "a", "p", "e", "=", "c", "i", "r", "c", "l", "e", "]", "\n">>>>]

\* Mutant: the declaration is formed from the counter after the increment.
createNodeStaleDeclaration(h, label) ==
    LET variable == <<"x">> \o str(h)
    IN  [handle |-> h + 1,
         ret    |-> <<variable,
                      <<"x">> \o str(h + 1) \o <<" ", "[", "l", "a", "b", "e", "l", "=", "\"">> \o label \o <<"\"", ",", "s", "h", "a", "p", "e", "=", "c", "i", "r", "c", "l", "e", "]", "\n">>>>]

\* Mutant: double quotes of the label are escaped with a backslash.
RECURSIVE Escape(_)
Escape(s) ==
    IF s = <<>> THEN <<>>
    ELSE (IF Head(s) = "\"" THEN <<"\\", "\"">> ELSE <<Head(s)>>) \o Escape(Tail(s))

createNodeEscaping(h, label) ==
    LET variable == <<"x">> \o str(h)
    IN  [handle |-> h + 1,
         ret    |-> <<variable,
                      variable \o <<" ", "[", "l", "a", "b", "e", "l", "=", "\"">> \o Escape(label) \o <<"\"", ",", "s", "h", "a", "p", "e", "=", "c", "i", "r", "c", "l", "e", "]", "\n">>>>]

createNode(h, label) ==
    LET variable == <<"x">> \o str(h)
    IN  [handle |-> h + 1,
         ret    |-> <<variable,
                      variable \o <<" ", "[", "l", "a", "b", "e", "l", "=", "\"">> \o label \o <<"\"", ",", "s", "h", "a", "p", "e", "=", "c", "i", "r", "c", "l", "e", "]", "\n">>>>]

\* Mutant: a space is put between the child and the options.
createChildSpaced(parent, child, options) ==
    parent \o <<" ", "-", ">", " ">> \o child \o <<" ">> \o options \o <<"\n">>

\* Mutant: the edge carries the current value of the global counter.
createChildCounted(parent, child, options) ==
    parent \o <<" ", "-", ">", " ">> \o child \o options \o <<" ", "/", "/", " ">> \o str(handle) \o <<"\n">>

createChild(parent, child, options) ==
    parent \o <<" ", "-", ">", " ">> \o child \o options \o <<"\n">>

\* Mutant: the footer is followed by a newline.
createWrapperNewline(code) == <<"s", "t", "r", "i", "c", "t", " ", "d", "i", "g", "r", "a", "p", "h", " ", "X", " ", "{", "\n">> \o code \o <<"}", "\n">>

createWrapper(code) == <<"s", "t", "r", "i", "c", "t", " ", "d", "i", "g", "r", "a", "p", "h", " ", "X", " ", "{", "\n">> \o code \o <<"}">>

\* Mutant: the edge plus -> minus names the root by the literal x0.
simpleASTFixedRoot(h) ==
    LET minusNode == createNode(h, <<"-">>)
        plusNode  == createNode(minusNode.handle, <<"+">>)
        oneNode   == createNode(plusNode.handle, <<"1">>)
        twoNode   == createNode(oneNode.handle, <<"2">>)
        threeNode == createNode(twoNode.handle, <<"3">>)
        string1   == minusNode.ret[2] \o plusNode.ret[2] \o oneNode.ret[2]
        string2   == string1 \o twoNode.ret[2] \o threeNode.ret[2]
        string3   == string2 \o createChild(minusNode.ret[1], oneNode.ret[1], DefaultOptions)
        string4   == string3 \o createChild(minusNode.ret[1], twoNode.ret[1], DefaultOptions)
        string5   == string4 \o createChild(plusNode.ret[1], <<"x", "0">>, DefaultOptions)
        string6   == string5 \o createChild(plusNode.ret[1], threeNode.ret[1], DefaultOptions)
    IN  [handle |-> threeNode.handle,
         ret    |-> string6,
         nodes  |-> <<minusNode.ret, plusNode.ret, oneNode.ret, twoNode.ret, threeNode.ret>>]

\* Mutant: each edge is emitted right after its child, in tree order.
simpleASTDepthFirst(h) ==
    LET minusNode == createNode(h, <<"-">>)
        plusNode  == createNode(minusNode.handle, <<"+">>)
        oneNode   == createNode(plusNode.handle, <<"1">>)
        twoNode   == createNode(oneNode.handle, <<"2">>)
        threeNode == createNode(twoNode.handle, <<"3">>)
        string1   == plusNode.ret[2] \o minusNode.ret[2]
        string2   == string1 \o createChild(plusNode.ret[1], minusNode.ret[1], DefaultOptions)
        string3   == string2 \o oneNode.ret[2] \o createChild(minusNode.ret[1], oneNode.ret[1], DefaultOptions)
        string4   == string3 \o twoNode.ret[2] \o createChild(minusNode.ret[1], twoNode.ret[1], DefaultOptions)
        string5   == string4 \o threeNode.ret[2]
        string6   == string5 \o createChild(plusNode.ret[1], threeNode.ret[1], DefaultOptions)
    IN  [handle |-> threeNode.handle,
         ret    |-> string6,
         nodes  |-> <<minusNode.ret, plusNode.ret, oneNode.ret, twoNode.ret, threeNode.ret>>]

simpleAST(h) ==
    LET minusNode == createNode(h, <<"-">>)
        plusNode  == createNode(minusNode.handle, <<"+">>)
        oneNode   == createNode(plusNode.handle, <<"1">>)
        twoNode   == createNode(oneNode.handle, <<"2">>)
        threeNode == createNode(twoNode.handle, <<"3">>)
        string1   == minusNode.ret[2] \o plusNode.ret[2] \o oneNode.ret[2]
        string2   == string1 \o twoNode.ret[2] \o threeNode.ret[2]
        string3   == string2 \o createChild(minusNode.ret[1], oneNode.ret[1], DefaultOptions)
        string4   == string3 \o createChild(minusNode.ret[1], twoNode.ret[1], DefaultOptions)
        string5   == string4 \o createChild(plusNode.ret[1], minusNode.ret[1], DefaultOptions)
        string6   == string5 \o createChild(plusNode.ret[1], threeNode.ret[1], DefaultOptions)
    IN  [handle |-> threeNode.handle,
         ret    |-> string6,
         nodes  |-> <<minusNode.ret, plusNode.ret, oneNode.ret, twoNode.ret, threeNode.ret>>]

\* Mutant: the tree is printed without the wrapper.
getCodeUnwrapped(h) ==
    LET tree == simpleAST(h)
    IN  [handle |-> tree.handle,
         out    |-> tree.ret \o NL,
         tree   |-> tree]

\* print x writes str(x) and then a newline to standard output.
getCode(h) ==
    LET tree == simpleAST(h)
    IN  [handle |-> tree.handle,
         out    |-> createWrapper(tree.ret) \o NL,
         tree   |-> tree]

----------------------------------------------------------------------------
\* Arguments the callers pass

Labels == {<<"-">>, <<"3">>, <<"f", "o", "o">>, <<"a", "\"", "b">>, <<>>}

\* (parent, child): identifiers createNode returns, and names it never returns.
Endpoints == {<<<<"a">>, <<"b">>>>, <<<<"x", "1">>, <<"x", "0">>>>}

Options == {<<>>, <<" ", "[", "s", "t", "y", "l", "e", "=", "d", "a", "s", "h", "e", "d", "]">>}

Bodies == {<<>>, <<"}">>, <<"x", "0", " ", "[", "l", "a", "b", "e", "l", "=", "\"", "-", "\"", ",", "s", "h", "a", "p", "e", "=", "c", "i", "r", "c", "l", "e", "]", "\n", "x", "0", " ", "-", ">", " ", "x", "0", "\n">>}

----------------------------------------------------------------------------
\* State
\*   handle  the global counter
\*   pc      "main": the module body is about to run getCode() (line 34);
\*           "end": the script has run and nothing was called since;
\*           "imported": a caller of the loaded module has called a function
\*   stdout  the characters written to standard output
\*   issued  the identifier returned by the i-th createNode call
\*   ret     the last call: function, arguments, counter before it, return value
\*   first   the first call of createChild or createWrapper, once there is one:
\*           function, arguments, counter at the call, return value
\*   asts    the last (at most two) simpleAST calls with no createNode call of
\*           another caller in between: counter before, counter after, result

Ids(nodes) == [i \in 1..Len(nodes) |-> nodes[i][1]]

Call(op, args, before, value) ==
    [op |-> op, args |-> args, before |-> before, value |-> value]

Remember(op, args, value) ==
    IF first = <<>>
    THEN <<[op |-> op, args |-> args, before |-> handle, value |-> value]>>
    ELSE first

Latest(before, tree) ==
    LET this == [before |-> before, after |-> tree.handle, string |-> tree.ret]
    IN  IF asts = <<>> THEN <<this>> ELSE <<asts[Len(asts)], this>>

Init ==
    /\ handle = 0
    /\ pc = "main"
    /\ stdout = <<>>
    /\ issued = <<>>
    /\ ret = Call("load", <<>>, 0, <<>>)
    /\ first = <<>>
    /\ asts = <<>>

\* getCode(): at line 34 when the script is loaded, and by a caller afterwards.
GetCode ==
    /\ handle + 5 <= MaxHandle
    /\ LET r == getCode(handle)
       IN  /\ handle' = r.handle
           /\ stdout' = stdout \o r.out
           /\ issued' = issued \o Ids(r.tree.nodes)
           /\ asts' = Latest(handle, r.tree)
           /\ ret' = Call("getCode", <<>>, handle, <<>>)
    /\ pc' = IF pc = "main" THEN "end" ELSE "imported"
    /\ UNCHANGED first

CreateNode ==
    /\ pc # "main"
    /\ handle < MaxHandle
    /\ \E label \in Labels :
          LET r == createNode(handle, label)
          IN  /\ handle' = r.handle
              /\ issued' = Append(issued, r.ret[1])
              /\ ret' = Call("createNode", <<label>>, handle, r.ret)
    /\ asts' = <<>>
    /\ pc' = "imported"
    /\ UNCHANGED <<stdout, first>>

\* createChild(parent, child, options)
CreateChild ==
    /\ pc # "main"
    /\ \E e \in Endpoints, options \in Options :
          LET value == createChild(e[1], e[2], options)
              args  == <<e[1], e[2], options>>
          IN  /\ ret' = Call("createChild", args, handle, value)
              /\ first' = Remember("createChild", args, value)
    /\ pc' = "imported"
    /\ UNCHANGED <<handle, stdout, issued, asts>>

\* createChild(parent, child): options takes its default
CreateChildDefault ==
    /\ pc # "main"
    /\ \E e \in Endpoints :
          LET value == createChild(e[1], e[2], DefaultOptions)
              args  == <<e[1], e[2]>>
          IN  /\ ret' = Call("createChild", args, handle, value)
              /\ first' = Remember("createChild", args, value)
    /\ pc' = "imported"
    /\ UNCHANGED <<handle, stdout, issued, asts>>

CreateWrapper ==
    /\ pc # "main"
    /\ \E code \in Bodies :
          LET value == createWrapper(code)
          IN  /\ ret' = Call("createWrapper", <<code>>, handle, value)
              /\ first' = Remember("createWrapper", <<code>>, value)
    /\ pc' = "imported"
    /\ UNCHANGED <<handle, stdout, issued, asts>>

SimpleAST ==
    /\ pc # "main"
    /\ handle + 5 <= MaxHandle
    /\ LET r == simpleAST(handle)
       IN  /\ handle' = r.handle
           /\ issued' = issued \o Ids(r.nodes)
           /\ asts' = Latest(handle, r)
           /\ ret' = Call("simpleAST", <<>>, handle, r.ret)
    /\ pc' = "imported"
    /\ UNCHANGED <<stdout, first>>

Next ==
    \/ GetCode
    \/ CreateNode
    \/ CreateChild
    \/ CreateChildDefault
    \/ CreateWrapper
    \/ SimpleAST

Spec == Init /\ [][Next]_vars

----------------------------------------------------------------------------
\* Reading text back: lines, substrings, identifiers

\* The positions of the newlines of s, in increasing order.
Newlines(s) ==
    LET at == {i \in 1..Len(s) : s[i] = "\n"}
    IN  [k \in 1..Cardinality(at) |->
            CHOOSE p \in at : Cardinality({q \in at : q < p}) = k - 1]

\* The pieces of a text: each line with its terminator, and what follows the
\* last newline when that is not empty.  Their concatenation is the text.
Pieces(s) ==
    LET nl   == Newlines(s)
        m    == Len(nl)
        from == [k \in 1..(m + 1) |-> IF k = 1 THEN 1 ELSE nl[k - 1] + 1]
        last == IF m = 0 THEN 0 ELSE nl[m]
    IN  [k \in 1..(IF last < Len(s) THEN m + 1 ELSE m) |->
            SubSeq(s, from[k], IF k <= m THEN nl[k] ELSE Len(s))]

\* The lines of a text, without their terminators.
SplitLines(s) ==
    LET pieces == Pieces(s)
    IN  [k \in DOMAIN pieces |->
            IF pieces[k][Len(pieces[k])] = "\n"
            THEN SubSeq(pieces[k], 1, Len(pieces[k]) - 1)
            ELSE pieces[k]]

RECURSIVE Concat(_)
Concat(ss) == IF ss = <<>> THEN <<>> ELSE Head(ss) \o Concat(Tail(ss))

EndsWithNewline(s) == s # <<>> /\ s[Len(s)] = "\n"

StartsWith(s, t) == Len(t) <= Len(s) /\ SubSeq(s, 1, Len(t)) = t

EndsWith(s, t) == Len(t) <= Len(s) /\ SubSeq(s, Len(s) - Len(t) + 1, Len(s)) = t

\* The positions of s at which t occurs.
Occurrences(s, t) ==
    {k \in 1..(Len(s) - Len(t) + 1) : SubSeq(s, k, k + Len(t) - 1) = t}

Contains(s, t) == Occurrences(s, t) # {}

IsDigit(c) == \E d \in 1..10 : DigitChars[d] = c

DigitValue(c) == (CHOOSE d \in 1..10 : DigitChars[d] = c) - 1

\* The number of digits of s from position i on.
RECURSIVE DigitRun(_, _)
DigitRun(s, i) == IF i <= Len(s) /\ IsDigit(s[i]) THEN 1 + DigitRun(s, i + 1) ELSE 0

\* The number a non-empty sequence of digits denotes.
RECURSIVE ParseInt(_)
ParseInt(d) ==
    IF Len(d) = 1 THEN DigitValue(d[1])
    ELSE 10 * ParseInt(SubSeq(d, 1, Len(d) - 1)) + DigitValue(d[Len(d)])

\* An identifier is an x followed by digits.
IsIdentifier(s) == Len(s) >= 2 /\ s[1] = "x" /\ DigitRun(s, 2) = Len(s) - 1

Suffix(id) == ParseInt(SubSeq(id, 2, Len(id)))

\* The text s from position i on, with the numeric suffix of every identifier
\* increased by off.
RECURSIVE ShiftFrom(_, _, _)
ShiftFrom(s, i, off) ==
    IF i > Len(s) THEN <<>>
    ELSE LET n == DigitRun(s, i + 1)
         IN  IF s[i] = "x" /\ n > 0
             THEN <<"x">> \o str(ParseInt(SubSeq(s, i + 1, i + n)) + off)
                      \o ShiftFrom(s, i + n + 1, off)
             ELSE <<s[i]>> \o ShiftFrom(s, i + 1, off)

\* The same for a text of several lines, line by line (no identifier holds a
\* newline).
ShiftIds(s, off) ==
    LET pieces == Pieces(s)
    IN  Concat([k \in DOMAIN pieces |-> ShiftFrom(pieces[k], 1, off)])

\* The numeric suffixes of the identifiers that occur in s.
SuffixesIn(s) ==
    {ParseInt(SubSeq(s, i + 1, i + DigitRun(s, i + 1))) :
        i \in {j \in 1..Len(s) : s[j] = "x" /\ DigitRun(s, j + 1) > 0}}

IsDeclaration(line) == Contains(line, <<" ", "[", "l", "a", "b", "e", "l", "=", "\"">>) /\ EndsWith(line, <<"\"", ",", "s", "h", "a", "p", "e", "=", "c", "i", "r", "c", "l", "e", "]">>)

IsEdge(line) == Contains(line, <<" ", "-", ">", " ">>)

ArrowAt(line) == CHOOSE k \in Occurrences(line, <<" ", "-", ">", " ">>) :
                    \A j \in Occurrences(line, <<" ", "-", ">", " ">>) : k <= j

Source(line) == SubSeq(line, 1, ArrowAt(line) - 1)

Target(line) == SubSeq(line, ArrowAt(line) + 4, Len(line))

----------------------------------------------------------------------------
\* Properties

CanonicalLines ==
    << <<"s", "t", "r", "i", "c", "t", " ", "d", "i", "g", "r", "a", "p", "h", " ", "X", " ", "{">>,
       <<"x", "0", " ", "[", "l", "a", "b", "e", "l", "=", "\"", "-", "\"", ",", "s", "h", "a", "p", "e", "=", "c", "i", "r", "c", "l", "e", "]">>,
       <<"x", "1", " ", "[", "l", "a", "b", "e", "l", "=", "\"", "+", "\"", ",", "s", "h", "a", "p", "e", "=", "c", "i", "r", "c", "l", "e", "]">>,
       <<"x", "2", " ", "[", "l", "a", "b", "e", "l", "=", "\"", "1", "\"", ",", "s", "h", "a", "p", "e", "=", "c", "i", "r", "c", "l", "e", "]">>,
       <<"x", "3", " ", "[", "l", "a", "b", "e", "l", "=", "\"", "2", "\"", ",", "s", "h", "a", "p", "e", "=", "c", "i", "r", "c", "l", "e", "]">>,
       <<"x", "4", " ", "[", "l", "a", "b", "e", "l", "=", "\"", "3", "\"", ",", "s", "h", "a", "p", "e", "=", "c", "i", "r", "c", "l", "e", "]">>,
       <<"x", "0", " ", "-", ">", " ", "x", "2">>,
       <<"x", "0", " ", "-", ">", " ", "x", "3">>,
       <<"x", "1", " ", "-", ">", " ", "x", "0">>,
       <<"x", "1", " ", "-", ">", " ", "x", "4">>,
       <<"}">> >>

\* C1: when the script has run (counter 0 at load, then the getCode() of line 34)
\* standard output holds exactly one document: the eleven canonical lines, each
\* ended by one newline (the last by print), and nothing else.
C1_EndToEnd ==
    pc = "end" =>
        /\ SplitLines(stdout) = CanonicalLines
        /\ EndsWithNewline(stdout)
        /\ Cardinality(Occurrences(stdout, NL)) = Len(CanonicalLines)

C1_Witness == pc = "end" /\ ret.op = "getCode" /\ stdout # <<>>

\* C2: no two createNode calls of a run return the same identifier, whatever
\* calls of the other functions come in between.
C2_Uniqueness ==
    \A i, j \in DOMAIN issued : issued[i] = issued[j] => i = j

C2_Witness ==
    /\ ret.op = "createNode"
    /\ first # <<>>
    /\ Len(issued) > 11
    /\ Len(asts) = 0

\* C3: the counter is 0 at start; the i-th createNode call returns x followed by
\* the decimal i-1, the counter value before the call, and leaves the counter
\* one greater, so that the counter always equals the number of createNode
\* calls made; no step decreases the counter or takes it back to 0.
C3_Counter ==
    /\ [](/\ pc = "main" => handle = 0
          /\ handle = Len(issued)
          /\ \A i \in DOMAIN issued :
                IsIdentifier(issued[i]) /\ Suffix(issued[i]) = i - 1
          /\ ret.op = "createNode" =>
                /\ ret.value[1] = issued[Len(issued)]
                /\ Suffix(ret.value[1]) = ret.before
                /\ handle = ret.before + 1)
    /\ [][/\ handle' >= handle
          /\ handle' = 0 => handle = 0
          /\ Len(issued') = Len(issued) + 1 => handle' = handle + 1]_vars

C3_Witness ==
    /\ ret.op = "createNode"
    /\ ret.before = 10
    /\ ret.value[1] = <<"x", "1", "0">>
    /\ handle = 11

\* C4: of two simpleAST calls with no other createNode call in between, the
\* second result is the first with every identifier's suffix increased by the
\* counter after the first call minus the counter before it, which is 5; after
\* a first call at counter 0 the second uses x5..x9 where the first uses x0..x4.
C4_Offset ==
    Len(asts) = 2 =>
        LET a   == asts[1]
            b   == asts[2]
            off == a.after - a.before
        IN  /\ off = 5
            /\ b.string = ShiftIds(a.string, off)
            /\ a.before = 0 =>
                  /\ SuffixesIn(a.string) = 0..4
                  /\ SuffixesIn(b.string) = 5..9

\* Two calls whose identifiers differ in length: x5..x9 and x10..x14.
C4_Witness ==
    /\ Len(asts) = 2
    /\ asts[1].before = 5
    /\ asts[2].before = 10
    /\ ret.op = "simpleAST"

ExpectedTree(c) ==
    LET id(k) == <<"x">> \o str(c + k)
    IN  << id(0) \o <<" ", "[", "l", "a", "b", "e", "l", "=", "\"", "-", "\"", ",", "s", "h", "a", "p", "e", "=", "c", "i", "r", "c", "l", "e", "]">>,
           id(1) \o <<" ", "[", "l", "a", "b", "e", "l", "=", "\"", "+", "\"", ",", "s", "h", "a", "p", "e", "=", "c", "i", "r", "c", "l", "e", "]">>,
           id(2) \o <<" ", "[", "l", "a", "b", "e", "l", "=", "\"", "1", "\"", ",", "s", "h", "a", "p", "e", "=", "c", "i", "r", "c", "l", "e", "]">>,
           id(3) \o <<" ", "[", "l", "a", "b", "e", "l", "=", "\"", "2", "\"", ",", "s", "h", "a", "p", "e", "=", "c", "i", "r", "c", "l", "e", "]">>,
           id(4) \o <<" ", "[", "l", "a", "b", "e", "l", "=", "\"", "3", "\"", ",", "s", "h", "a", "p", "e", "=", "c", "i", "r", "c", "l", "e", "]">>,
           id(0) \o <<" ", "-", ">", " ">> \o id(2),
           id(0) \o <<" ", "-", ">", " ">> \o id(3),
           id(1) \o <<" ", "-", ">", " ">> \o id(0),
           id(1) \o <<" ", "-", ">", " ">> \o id(4) >>

\* C5: the result of simpleAST called at counter c is exactly 9 lines: the 5
\* declarations of x(c)..x(c+4) with labels - + 1 2 3, then the 4 edges
\* minus->one, minus->two, plus->minus, plus->three; no edge line comes before a
\* declaration line.
C5_Structure ==
    \A n \in DOMAIN asts :
        LET lines == SplitLines(asts[n].string)
        IN  /\ EndsWithNewline(asts[n].string)
            /\ Len(lines) = 9
            /\ lines = ExpectedTree(asts[n].before)
            /\ {i \in 1..Len(lines) : IsDeclaration(lines[i])} = 1..5
            /\ {i \in 1..Len(lines) : IsEdge(lines[i])} = 6..9
            /\ \A i, j \in 1..Len(lines) :
                  IsEdge(lines[i]) /\ IsDeclaration(lines[j]) => j < i

C5_Witness ==
    /\ ret.op = "simpleAST"
    /\ Len(asts) = 1
    /\ asts[1].before = 8
    /\ ret.value = asts[1].string

\* C6: in a result of simpleAST, the source and the target of every edge line
\* are identifiers createNode returned during that simpleAST call, and each is
\* declared on an earlier line of the same result.
C6_EndpointsDeclared ==
    \A n \in DOMAIN asts :
        LET lines   == SplitLines(asts[n].string)
            created == {issued[k] : k \in (asts[n].before + 1)..asts[n].after}
        IN  \A i \in 1..Len(lines) :
                IsEdge(lines[i]) =>
                    \A id \in {Source(lines[i]), Target(lines[i])} :
                        /\ id \in created
                        /\ \E j \in 1..(i - 1) :
                              /\ IsDeclaration(lines[j])
                              /\ StartsWith(lines[j], id \o <<" ", "[", "l", "a", "b", "e", "l", "=", "\"">>)

C6_Witness ==
    /\ asts # <<>>
    /\ asts[Len(asts)].before = 7
    /\ Cardinality({i \in 1..9 : IsEdge(SplitLines(asts[Len(asts)].string)[i])}) = 4

Pure == {"createChild", "createWrapper"}

\* C7: a call of createChild or createWrapper leaves the counter as it was, and
\* returns what the first call with the same arguments returned, however many
\* createNode calls were made in between; a call that changed the counter is a
\* call of createNode, simpleAST or getCode.
C7_Purity ==
    /\ handle # ret.before => ret.op \in {"createNode", "simpleAST", "getCode"}
    /\ ret.op \in Pure =>
          /\ handle = ret.before
          /\ first # <<>>
          /\ (first[1].op = ret.op /\ first[1].args = ret.args) =>
                ret.value = first[1].value

C7_Witness ==
    /\ ret.op = "createChild"
    /\ first # <<>>
    /\ first[1].op = ret.op
    /\ first[1].args = ret.args
    /\ first[1].before + 3 < ret.before

Header == <<"s", "t", "r", "i", "c", "t", " ", "d", "i", "g", "r", "a", "p", "h", " ", "X", " ", "{", "\n">>

\* C8: createWrapper(s) is the header line, then s, then the one character },
\* and nothing more: cutting the header and the last character off gives s.
C8_WrapperRoundTrip ==
    ret.op = "createWrapper" =>
        LET s == ret.args[1]
            d == ret.value
        IN  /\ Len(d) = Len(Header) + Len(s) + 1
            /\ StartsWith(d, Header)
            /\ d[Len(d)] = "}"
            /\ SubSeq(d, Len(Header) + 1, Len(d) - 1) = s

C8_Witness ==
    /\ ret.op = "createWrapper"
    /\ ret.args[1] # <<>>
    /\ EndsWithNewline(ret.args[1])

\* C9: createChild(parent, child, options) is parent, " -> ", child, options as
\* given, and one newline; without options it is parent, " -> ", child and the
\* newline; createChild("a", "b", " [style=dashed]") is "a -> b [style=dashed]\n".
C9_OptionsPassthrough ==
    ret.op = "createChild" =>
        LET parent  == ret.args[1]
            child   == ret.args[2]
            options == IF Len(ret.args) = 3 THEN ret.args[3] ELSE <<>>
            v       == ret.value
            p       == Len(parent)
            c       == Len(child)
        IN  /\ Len(v) = p + 4 + c + Len(options) + 1
            /\ SubSeq(v, 1, p) = parent
            /\ SubSeq(v, p + 1, p + 4) = <<" ", "-", ">", " ">>
            /\ SubSeq(v, p + 5, p + 4 + c) = child
            /\ SubSeq(v, p + 5 + c, Len(v) - 1) = options
            /\ v[Len(v)] = "\n"
            /\ ret.args = <<<<"a">>, <<"b">>, <<" ", "[", "s", "t", "y", "l", "e", "=", "d", "a", "s", "h", "e", "d", "]">>>> =>
                  v = <<"a", " ", "-", ">", " ", "b", " ", "[", "s", "t", "y", "l", "e", "=", "d", "a", "s", "h", "e", "d", "]", "\n">>
            /\ ret.args = <<<<"a">>, <<"b">>>> => v = <<"a", " ", "-", ">", " ", "b", "\n">>

C9_Witness ==
    /\ ret.op = "createChild"
    /\ ret.args = <<<<"a">>, <<"b">>, <<" ", "[", "s", "t", "y", "l", "e", "=", "d", "a", "s", "h", "e", "d", "]">>>>

\* C10: createNode(label) returns the identifier and, as declaration, the
\* identifier, then [label=" after a space, then the label unchanged (a double
\* quote in it too), then ",shape=circle] and one newline; the declaration of
\* createNode("foo") contains label="foo" and shape=circle.
C10_LabelPassthrough ==
    ret.op = "createNode" =>
        LET label == ret.args[1]
            id    == ret.value[1]
            decl  == ret.value[2]
            open  == <<" ", "[", "l", "a", "b", "e", "l", "=", "\"">>
            close == <<"\"", ",", "s", "h", "a", "p", "e", "=", "c", "i", "r", "c", "l", "e", "]">>
        IN  /\ Len(decl) = Len(id) + Len(open) + Len(label) + Len(close) + 1
            /\ StartsWith(decl, id \o open)
            /\ SubSeq(decl, Len(id) + Len(open) + 1,
                      Len(id) + Len(open) + Len(label)) = label
            /\ EndsWith(decl, close \o NL)
            /\ label = <<"f", "o", "o">> =>
                  Contains(decl, <<"l", "a", "b", "e", "l", "=", "\"", "f", "o", "o", "\"">>) /\ Contains(decl, <<"s", "h", "a", "p", "e", "=", "c", "i", "r", "c", "l", "e">>)

C10_Witness ==
    /\ ret.op = "createNode"
    /\ ret.args[1] = <<"a", "\"", "b">>
    /\ Contains(ret.value[2], <<"l", "a", "b", "e", "l", "=", "\"", "a", "\"", "b", "\"">>)

====
